---------------------------- MODULE Spec2Model ----------------------------
(***************************************************************************)
(* Time-table generator.                                                   *)
(*   Solver.solve            src/algorithm/solver.py  (per-group demand)   *)
(*   generate_events,                                                      *)
(*   greedy_schedule         src/src/solver.py        (per-subject demand) *)
(*   Model.detect_conflicts,                                               *)
(*   Model.detect_capacity_violations   src/algorithm/model.py   (audit)   *)
(*                                                                         *)
(* Identifiers (room, teacher, subject, group ids, day and time labels)    *)
(* are atoms: strings that hold no comma and no blank.  A table cell that  *)
(* the code builds from several of them (the Groups column) is a sequence  *)
(* of atoms and separator characters.  Python's None is the value None.    *)
(***************************************************************************)
EXTENDS Integers, Sequences, FiniteSets, TLC

VARIABLES
    model,          \* the loaded Model (rooms, teachers, subjects, groups, slots, modifiers)
    prog,           \* which entry point runs: "solve", "greedy" or "audit"
    pc,             \* position in that entry point
    run,            \* 1 for the first run on this input, 2 for a repeated run
    schedule,       \* Solver.solve: the local list `schedule`
    task,           \* Solver.solve: index of the next entry of scheduling_tasks
    solution,       \* Solver.solve: the returned DataFrame, a sequence of rows
    events,         \* generate_events: the returned DataFrame, a sequence of rows
    events_sorted,  \* greedy_schedule: the local list `events_sorted`
    ev,             \* greedy_schedule: index of the next entry of events_sorted
    assignments,    \* greedy_schedule: the local list `assignments`
    teacher_busy,   \* greedy_schedule: teacher id -> set of <<day, time>>
    room_busy,      \* greedy_schedule: room id -> set of <<day, time>>
    unassigned,     \* greedy_schedule: the returned list `unassigned`
    conflicts,      \* detect_conflicts: the returned dict of three lists
    violations,     \* detect_capacity_violations: the returned list
    first           \* what the first run returned, kept for a repeated run

vars == <<model, prog, pc, run, schedule, task, solution, events, events_sorted,
          ev, assignments, teacher_busy, room_busy, unassigned, conflicts,
          violations, first>>

-----------------------------------------------------------------------------
(* Bounds of the model.                                                    *)

\* number of declared days and of declared time labels
NumDays == 2
NumTimes == 2

\* day and time labels, in declared order
DayPool == <<"Mon", "Tue", "Wed", "Thu", "Fri">>
TimePool == <<"09:00", "10:00", "11:00", "12:00">>

\* the same labels in the order of their text, which is what a sort on the
\* Day or the Time column compares
DayText == <<"Fri", "Mon", "Thu", "Tue", "Wed">>
TimeText == <<"09:00", "10:00", "11:00", "12:00">>

\* Python's None: beside integers (a size, a configured maximum), and beside
\* strings (a teacher, a room, a day, a time)
None == -1
NoneStr == "(None)"

-----------------------------------------------------------------------------
(* Helpers: Python's list and dict operations.                             *)

Range(s) == {s[i] : i \in DOMAIN s}

\* d.get(k, default)
Get(d, k, default) == IF k \in DOMAIN d THEN d[k] ELSE default

\* list.index(x): the first position of x
IndexOf(s, x) == CHOOSE i \in DOMAIN s : s[i] = x /\ \A j \in 1..(i - 1) : s[j] # x

RECURSIVE SumSeq(_)
SumSeq(s) == IF s = <<>> THEN 0 ELSE Head(s) + SumSeq(Tail(s))

\* the dict built by {r["id"]: value of r for r in rows}, vals[i] being the value of
\* rows[i]: a later row with the same id wins
DictOf(rows, vals) ==
    [k \in {rows[i].id : i \in DOMAIN rows} |->
        vals[CHOOSE i \in DOMAIN rows :
                rows[i].id = k /\ \A j \in DOMAIN rows : rows[j].id = k => j <= i]]

\* s in ascending order of the integer keys (keys[i] is the key of s[i]); rows with
\* equal keys keep their order
SortedBy(s, keys) ==
    LET n == Len(s)
        pos(i) == 1 + Cardinality({j \in 1..n : \/ keys[j] < keys[i]
                                                \/ keys[j] = keys[i] /\ j < i})
    IN [p \in 1..n |-> s[CHOOSE i \in 1..n : pos(i) = p]]

-----------------------------------------------------------------------------
(* Solver.__init__: the fields a Solver reads from its Model.              *)

days == model.days
times == model.times
breaks_raw == model.breaks

DefaultMaxConsec == 2
max_consec == Get(model.modifiers, "maximum_consecutive_classes", DefaultMaxConsec)
max_slots_per_group_per_day == Get(model.modifiers, "maximum_slot_per_group_per_day", None)

room_types == DictOf(model.rooms, [i \in DOMAIN model.rooms |-> model.rooms[i].type])
room_capacity == DictOf(model.rooms, [i \in DOMAIN model.rooms |-> model.rooms[i].capacity])
group_size == DictOf(model.groups, [i \in DOMAIN model.groups |-> model.groups[i].size])
lab_rooms == LET IsLab(r) == r.type = "lab" IN SelectSeq(model.rooms, IsLab)
lab_for == DictOf(lab_rooms, [i \in DOMAIN lab_rooms |-> Range(lab_rooms[i].for)])
teacher_subjects ==
    DictOf(model.teachers, [i \in DOMAIN model.teachers |-> Range(model.teachers[i].subjects)])
subject_type == DictOf(model.subjects, [i \in DOMAIN model.subjects |-> model.subjects[i].type])
subject_names == DictOf(model.subjects, [i \in DOMAIN model.subjects |-> model.subjects[i].name])
teacher_names == DictOf(model.teachers, [i \in DOMAIN model.teachers |-> model.teachers[i].name])

\* _compute_invalid_start_times: day -> set of blocked times; a break whose day
\* is "*" blocks its time on every declared day
invalid_start_times ==
    LET daysOf(brk) == IF brk.day = "*" THEN Range(days) ELSE {brk.day}
        keys == UNION {daysOf(breaks_raw[i]) : i \in DOMAIN breaks_raw}
    IN [d \in keys |->
          {breaks_raw[i].time : i \in {j \in DOMAIN breaks_raw : d \in daysOf(breaks_raw[j])}}]

-----------------------------------------------------------------------------
(* Solver: the checks of one candidate against the schedule built so far.  *)

DefaultRoomCapacity == 50
SolverDefaultGroupSize == 30

\* _valid_room_for_subject
ValidRoomForSubject(room_id, subject_id) ==
    LET rtype == room_types[room_id]
        stype == subject_type[subject_id]
    IN \/ rtype = "lecture" /\ stype = "lecture"
       \/ /\ rtype = "lab"
          /\ stype = "lab"
          /\ subject_id \in Get(lab_for, room_id, {})

\* _teacher_available without its test of the teacher: every teacher counts as free
TeacherAlwaysAvailable(teacher_id, day, time, sched) == TRUE

\* _teacher_available
TeacherAvailable(teacher_id, day, time, sched) ==
    \A i \in DOMAIN sched :
        ~(sched[i].teacher = teacher_id /\ sched[i].day = day /\ sched[i].time = time)

\* _room_available
RoomAvailable(room_id, day, time, sched) ==
    \A i \in DOMAIN sched :
        ~(sched[i].room = room_id /\ sched[i].day = day /\ sched[i].time = time)

\* _group_available
GroupAvailable(group_id, day, time, sched) ==
    \A i \in DOMAIN sched :
        ~(group_id \in Range(sched[i].groups) /\ sched[i].day = day /\ sched[i].time = time)

\* _no_break
NoBreak(day, time) == time \notin Get(invalid_start_times, day, {})

\* _capacity_sufficient without its comparison: every room counts as large enough
CapacityAlwaysSufficient(room_id, group_ids) == TRUE

\* _capacity_sufficient
CapacitySufficient(room_id, group_ids) ==
    LET room_cap == Get(room_capacity, room_id, DefaultRoomCapacity)
        total_students ==
            SumSeq([i \in DOMAIN group_ids |->
                       Get(group_size, group_ids[i], SolverDefaultGroupSize)])
    IN total_students <= room_cap

\* the loop of _max_consecutive_ok over the sorted indices, from position i on
RECURSIVE MaxRun(_, _, _, _)
MaxRun(ts, i, current_cons, max_cons) ==
    IF i > Len(ts) THEN max_cons
    ELSE IF ts[i] = ts[i - 1] + 1
         THEN MaxRun(ts, i + 1, current_cons + 1,
                     IF current_cons + 1 > max_cons THEN current_cons + 1 ELSE max_cons)
         ELSE MaxRun(ts, i + 1, 1, max_cons)

\* _max_consecutive_ok
MaxConsecutiveOk(teacher_id, day, time, sched) ==
    LET IsDayClass(c) == c.teacher = teacher_id /\ c.day = day
        day_classes == SelectSeq(sched, IsDayClass)
        idx == [i \in 1..(Len(day_classes) + 1) |->
                  IF i <= Len(day_classes) THEN IndexOf(times, day_classes[i].time)
                  ELSE IndexOf(times, time)]
        sorted == SortedBy(idx, idx)
    IN MaxRun(sorted, 2, 1, 1) <= max_consec

\* _max_slots_per_group_per_day_ok with <= for its <
MaxSlotsOneMoreOk(group_id, day, sched) ==
    IF max_slots_per_group_per_day = None THEN TRUE
    ELSE LET IsDayClass(c) == c.day = day /\ group_id \in Range(c.groups)
         IN Len(SelectSeq(sched, IsDayClass)) <= max_slots_per_group_per_day

\* _max_slots_per_group_per_day_ok
MaxSlotsPerGroupPerDayOk(group_id, day, sched) ==
    IF max_slots_per_group_per_day = None THEN TRUE
    ELSE LET IsDayClass(c) == c.day = day /\ group_id \in Range(c.groups)
         IN Len(SelectSeq(sched, IsDayClass)) < max_slots_per_group_per_day

-----------------------------------------------------------------------------
(* Solver.solve                                                            *)

\* scheduling_tasks: one <<subject_id, group_id>> per group and declared subject
RECURSIVE TasksOf(_)
TasksOf(groups) ==
    IF groups = <<>> THEN <<>>
    ELSE LET g == Head(groups)
         IN [i \in DOMAIN g.subjects |-> <<g.subjects[i], g.id>>] \o TasksOf(Tail(groups))

scheduling_tasks == TasksOf(model.groups)

\* every teacher, whatever the subject
AllTeachers(subject_id) == model.teachers

\* available_teachers of a task
AvailableTeachers(subject_id) ==
    LET Teaches(t) == subject_id \in teacher_subjects[t.id]
    IN SelectSeq(model.teachers, Teaches)

\* one pass of the nested loops: teacher, then (day, time) of
\* itertools.product(days, times), then room
SolveCandidates(subject_id) ==
    [t : DOMAIN AvailableTeachers(subject_id), d : DOMAIN days, m : DOMAIN times,
     r : DOMAIN model.rooms]

\* the loops nested the other way round: room, then teacher, then (day, time)
EarlierRoomsFirst(c1, c2) ==
    \/ c1.r < c2.r
    \/ c1.r = c2.r /\ c1.t < c2.t
    \/ c1.r = c2.r /\ c1.t = c2.t /\ c1.d < c2.d
    \/ c1.r = c2.r /\ c1.t = c2.t /\ c1.d = c2.d /\ c1.m < c2.m

\* c1 is reached before c2 by the nested loops
Earlier(c1, c2) ==
    \/ c1.t < c2.t
    \/ c1.t = c2.t /\ c1.d < c2.d
    \/ c1.t = c2.t /\ c1.d = c2.d /\ c1.m < c2.m
    \/ c1.t = c2.t /\ c1.d = c2.d /\ c1.m = c2.m /\ c1.r < c2.r

\* the loop over the rooms stops after the first declared room
SolveAdmissibleFirstRoom(c, subject_id, group_id, sched) ==
    LET teacher_id == AvailableTeachers(subject_id)[c.t].id
        day == days[c.d]
        time == times[c.m]
        room_id == model.rooms[c.r].id
    IN /\ c.r = 1
       /\ NoBreak(day, time)
       /\ TeacherAvailable(teacher_id, day, time, sched)
       /\ GroupAvailable(group_id, day, time, sched)
       /\ MaxConsecutiveOk(teacher_id, day, time, sched)
       /\ MaxSlotsPerGroupPerDayOk(group_id, day, sched)
       /\ ValidRoomForSubject(room_id, subject_id)
       /\ RoomAvailable(room_id, day, time, sched)
       /\ CapacitySufficient(room_id, <<group_id>>)

\* the candidate passes every `continue` of the loop body
SolveAdmissible(c, subject_id, group_id, sched) ==
    LET teacher_id == AvailableTeachers(subject_id)[c.t].id
        day == days[c.d]
        time == times[c.m]
        room_id == model.rooms[c.r].id
    IN /\ NoBreak(day, time)
       /\ TeacherAvailable(teacher_id, day, time, sched)
       /\ GroupAvailable(group_id, day, time, sched)
       /\ MaxConsecutiveOk(teacher_id, day, time, sched)
       /\ MaxSlotsPerGroupPerDayOk(group_id, day, sched)
       /\ ValidRoomForSubject(room_id, subject_id)
       /\ RoomAvailable(room_id, day, time, sched)
       /\ CapacitySufficient(room_id, <<group_id>>)

\* the loops run in an order that is not fixed, forward or backward: the candidate
\* taken is the first or the last admissible one
SolveTakesEitherEnd(c, subject_id, group_id, sched) ==
    /\ SolveAdmissible(c, subject_id, group_id, sched)
    /\ \/ \A c2 \in SolveCandidates(subject_id) :
             Earlier(c2, c) => ~SolveAdmissible(c2, subject_id, group_id, sched)
       \/ \A c2 \in SolveCandidates(subject_id) :
             Earlier(c, c2) => ~SolveAdmissible(c2, subject_id, group_id, sched)

\* the candidate at which the loops append and break: the first admissible one
SolveTakes(c, subject_id, group_id, sched) ==
    /\ SolveAdmissible(c, subject_id, group_id, sched)
    /\ \A c2 \in SolveCandidates(subject_id) :
          Earlier(c2, c) => ~SolveAdmissible(c2, subject_id, group_id, sched)

\* the dict appended to `schedule`
Session(c, subject_id, group_id) ==
    LET teacher_id == AvailableTeachers(subject_id)[c.t].id
    IN [subject |-> subject_id,
        subject_name |-> subject_names[subject_id],
        teacher |-> teacher_id,
        teacher_name |-> teacher_names[teacher_id],
        room |-> model.rooms[c.r].id,
        day |-> days[c.d],
        time |-> times[c.m],
        groups |-> <<group_id>>]

\* ", ".join(groups): the ids with a comma and a blank between them
RECURSIVE JoinGroups(_)
JoinGroups(gs) ==
    IF Len(gs) <= 1 THEN gs
    ELSE <<Head(gs), ",", " ">> \o JoinGroups(Tail(gs))

\* a row of the returned table
Row(c) ==
    [Day |-> c.day, Time |-> c.time, Subject |-> c.subject_name,
     Teacher |-> c.teacher_name, Room |-> c.room, Groups |-> JoinGroups(c.groups)]

\* the position of a label among the labels in the order of their text
TextRank(labels, x) == IndexOf(labels, x)

\* df.sort(["Day", "Time"])
SortDayTime(rows) ==
    SortedBy(rows, [i \in DOMAIN rows |->
                      TextRank(DayText, rows[i].Day) * (Len(TimeText) + 1)
                        + TextRank(TimeText, rows[i].Time)])

\* one iteration of `for subject_id, group_id in scheduling_tasks` that appends
SolvePlace ==
    /\ prog = "solve" /\ pc = "tasks" /\ task <= Len(scheduling_tasks)
    /\ LET subject_id == scheduling_tasks[task][1]
           group_id == scheduling_tasks[task][2]
       IN \E c \in SolveCandidates(subject_id) :
             /\ SolveTakes(c, subject_id, group_id, schedule)
             /\ schedule' = Append(schedule, Session(c, subject_id, group_id))
    /\ task' = task + 1
    /\ UNCHANGED <<model, prog, pc, run, solution, events, events_sorted, ev,
                   assignments, teacher_busy, room_busy, unassigned, conflicts,
                   violations, first>>

\* an iteration that exhausts the loops and then takes back the session placed
\* last, to make room for the requests to come
SolveSkipUndoLast ==
    /\ prog = "solve" /\ pc = "tasks" /\ task <= Len(scheduling_tasks)
    /\ LET subject_id == scheduling_tasks[task][1]
           group_id == scheduling_tasks[task][2]
       IN \A c \in SolveCandidates(subject_id) :
             ~SolveAdmissible(c, subject_id, group_id, schedule)
    /\ schedule' = SubSeq(schedule, 1, Len(schedule) - 1)
    /\ task' = task + 1
    /\ UNCHANGED <<model, prog, pc, run, solution, events, events_sorted,
                   ev, assignments, teacher_busy, room_busy, unassigned, conflicts,
                   violations, first>>

\* one iteration that exhausts the loops with `assigned` still False
SolveSkip ==
    /\ prog = "solve" /\ pc = "tasks" /\ task <= Len(scheduling_tasks)
    /\ LET subject_id == scheduling_tasks[task][1]
           group_id == scheduling_tasks[task][2]
       IN \A c \in SolveCandidates(subject_id) :
             ~SolveAdmissible(c, subject_id, group_id, schedule)
    /\ task' = task + 1
    /\ UNCHANGED <<model, prog, pc, run, schedule, solution, events, events_sorted,
                   ev, assignments, teacher_busy, room_busy, unassigned, conflicts,
                   violations, first>>

\* after the loop: rows, the DataFrame, its sort, the return
SolveReturn ==
    /\ prog = "solve" /\ pc = "tasks" /\ task > Len(scheduling_tasks)
    /\ solution' = SortDayTime([i \in DOMAIN schedule |-> Row(schedule[i])])
    /\ pc' = "returned"
    /\ UNCHANGED <<model, prog, run, schedule, task, events, events_sorted, ev,
                   assignments, teacher_busy, room_busy, unassigned, conflicts,
                   violations, first>>

-----------------------------------------------------------------------------
(* Model.detect_conflicts and Model.detect_capacity_violations             *)

\* the entries of s without the repeats of an earlier entry
RECURSIVE Distinct(_)
Distinct(s) ==
    IF s = <<>> THEN <<>>
    ELSE LET init == Distinct(SubSeq(s, 1, Len(s) - 1))
             x == s[Len(s)]
         IN IF x \in Range(init) THEN init ELSE Append(init, x)

\* every ordering of a finite set
Orderings(S) == {s \in [1..Cardinality(S) -> S] : Range(s) = S}

\* df.select(["Day", "Time"]).unique(), as a set: the order of its rows is not
\* fixed by the call
TimeSlots(df) == {<<df[i].Day, df[i].Time>> : i \in DOMAIN df}

\* df.filter((Day == day) & (Time == time))
SlotClasses(df, day, time) ==
    LET InSlot(row) == row.Day = day /\ row.Time = time
    IN SelectSeq(df, InSlot)

\* the records one slot adds to one of the three lists: group_by(col).len(),
\* the groups longer than 1, and for each the rows of the slot with that value
ConflictsAt(df, day, time, col, key) ==
    LET slot_classes == SlotClasses(df, day, time)
        values == Distinct([i \in DOMAIN slot_classes |-> slot_classes[i][col]])
        Has(v) == LET Same(row) == row[col] = v IN SelectSeq(slot_classes, Same)
        Repeated(v) == Len(Has(v)) > 1
        offending == SelectSeq(values, Repeated)
    IN [i \in DOMAIN offending |->
          (key :> offending[i]) @@
          [day |-> day, time |-> time, classes |-> Has(offending[i])]]

\* the loop `for row in time_slots.to_dicts()` over the slots in the order given
RECURSIVE ConflictsOver(_, _, _, _)
ConflictsOver(df, slot_order, col, key) ==
    IF slot_order = <<>> THEN <<>>
    ELSE ConflictsAt(df, Head(slot_order)[1], Head(slot_order)[2], col, key)
           \o ConflictsOver(df, Tail(slot_order), col, key)

\* detect_conflicts, for one order of time_slots
DetectConflicts(df, slot_order) ==
    [teacher_conflicts |-> ConflictsOver(df, slot_order, "Teacher", "teacher"),
     room_conflicts |-> ConflictsOver(df, slot_order, "Room", "room"),
     group_conflicts |-> ConflictsOver(df, slot_order, "Groups", "group")]

\* str.split(","): the pieces between the commas
RECURSIVE SplitComma(_, _)
SplitComma(s, piece) ==
    IF s = <<>> THEN <<piece>>
    ELSE IF Head(s) = "," THEN <<piece>> \o SplitComma(Tail(s), <<>>)
    ELSE SplitComma(Tail(s), Append(piece, Head(s)))

\* str.strip(): without the blanks at either end
RECURSIVE Strip(_)
Strip(s) ==
    IF s = <<>> THEN s
    ELSE IF Head(s) = " " THEN Strip(Tail(s))
    ELSE IF s[Len(s)] = " " THEN Strip(SubSeq(s, 1, Len(s) - 1))
    ELSE s

\* the id a stripped piece spells: an atom, the empty string, or no id at all
PieceId(piece) ==
    IF Len(piece) = 1 THEN piece[1]
    ELSE IF piece = <<>> THEN ""
    ELSE "(no id)"

\* [g.strip() for g in groups_str.split(",")]
SplitGroups(groups_str) ==
    LET pieces == SplitComma(groups_str, <<>>)
    IN [i \in DOMAIN pieces |-> PieceId(Strip(pieces[i]))]

AuditDefaultGroupSize == 0

\* the test with >= for >
ExceedsOrFills(total_students, room_cap) == total_students >= room_cap

\* the test `total_students > room_cap` of detect_capacity_violations
Exceeds(total_students, room_cap) == total_students > room_cap

\* the record detect_capacity_violations appends for a row, or nothing
ViolationOf(row, rooms_df, groups_df) ==
    LET audit_room_capacity == DictOf(rooms_df, [i \in DOMAIN rooms_df |-> rooms_df[i].capacity])
        audit_group_size == DictOf(groups_df, [i \in DOMAIN groups_df |-> groups_df[i].size])
        room_id == row.Room
        group_ids == SplitGroups(row.Groups)
        total_students ==
            SumSeq([i \in DOMAIN group_ids |->
                       Get(audit_group_size, group_ids[i], AuditDefaultGroupSize)])
        room_cap == Get(audit_room_capacity, room_id, DefaultRoomCapacity)
    IN IF Exceeds(total_students, room_cap)
       THEN <<[day |-> row.Day, time |-> row.Time, subject |-> row.Subject,
               teacher |-> row.Teacher, room |-> room_id, room_capacity |-> room_cap,
               groups |-> group_ids, total_students |-> total_students,
               overflow |-> total_students - room_cap]>>
       ELSE <<>>

\* detect_capacity_violations
RECURSIVE DetectCapacityViolations(_, _, _)
DetectCapacityViolations(df, rooms_df, groups_df) ==
    IF df = <<>> THEN <<>>
    ELSE ViolationOf(Head(df), rooms_df, groups_df)
           \o DetectCapacityViolations(Tail(df), rooms_df, groups_df)

\* Model.detect_conflicts(solution)
AuditConflicts ==
    /\ prog \in {"solve", "audit"} /\ pc = "returned"
    /\ \E slot_order \in Orderings(TimeSlots(solution)) :
          conflicts' = DetectConflicts(solution, slot_order)
    /\ pc' = "conflicts"
    /\ UNCHANGED <<model, prog, run, schedule, task, solution, events, events_sorted,
                   ev, assignments, teacher_busy, room_busy, unassigned, violations,
                   first>>

\* Model.detect_capacity_violations(solution, model.rooms, model.groups)
AuditCapacity ==
    /\ prog \in {"solve", "audit"} /\ pc = "conflicts"
    /\ violations' = DetectCapacityViolations(solution, model.rooms, model.groups)
    /\ pc' = "done"
    /\ UNCHANGED <<model, prog, run, schedule, task, solution, events, events_sorted,
                   ev, assignments, teacher_busy, room_busy, unassigned, conflicts,
                   first>>

-----------------------------------------------------------------------------
(* generate_events                                                         *)

DefaultClassesPerWeek == 1

\* subj_to_teachers.get(sid, []): the ids of the teachers that list the subject,
\* in teacher order, once per listing
RECURSIVE SubjToTeachers(_, _)
SubjToTeachers(teachers, sid) ==
    IF teachers = <<>> THEN <<>>
    ELSE LET t == Head(teachers)
             IsSid(s) == s = sid
             listed == SelectSeq(t.subjects, IsSid)
         IN [i \in DOMAIN listed |-> t.id] \o SubjToTeachers(Tail(teachers), sid)

\* pl.DataFrame(data["subjects"]).to_dicts(): the table has one column per key that
\* any record gives, and a row reads None in a column its record did not give
ToDicts(rows) ==
    LET columns == UNION {DOMAIN rows[i] : i \in DOMAIN rows}
    IN [i \in DOMAIN rows |->
          [k \in columns |-> IF k \in DOMAIN rows[i] THEN rows[i][k] ELSE None]]

\* int(subj.get("classes_per_week", 1)) on a row whose classes_per_week is None:
\* the key is there, so the default is not used, and int(None) raises TypeError
IntOfNone(subjects) ==
    \E i \in DOMAIN subjects :
        /\ "classes_per_week" \in DOMAIN subjects[i]
        /\ subjects[i].classes_per_week = None

\* the rows of one subject: event ids sid__1 .. sid__n
EventsOf(subj) ==
    LET sid == subj.id
        n == Get(subj, "classes_per_week", DefaultClassesPerWeek)
    IN [i \in 1..n |->
          [event_id |-> <<sid, "__", i>>,
           subject |-> sid,
           credits |-> Get(subj, "credits", None),
           size |-> Get(subj, "size", None),
           candidate_teachers |-> SubjToTeachers(model.teachers, sid)]]

\* generate_events
RECURSIVE GenerateEventsOf(_)
GenerateEventsOf(subjects) ==
    IF subjects = <<>> THEN <<>>
    ELSE EventsOf(Head(subjects)) \o GenerateEventsOf(Tail(subjects))

-----------------------------------------------------------------------------
(* greedy_schedule                                                         *)

\* breaks: the (day, time) pairs of the break rows, taken as written
GreedyBreaks == {<<breaks_raw[i].day, breaks_raw[i].time>> : i \in DOMAIN breaks_raw}

\* [(d, s) for d in days for s in slots if (d, s) not in breaks]
RECURSIVE ProductFrom(_, _)
ProductFrom(ds, ss) ==
    IF ds = <<>> THEN <<>>
    ELSE [i \in DOMAIN ss |-> <<Head(ds), ss[i]>>] \o ProductFrom(Tail(ds), ss)

expanded_slots ==
    LET NotBreak(slot) == slot \notin GreedyBreaks
    IN SelectSeq(ProductFrom(days, times), NotBreak)

\* the rooms left in the order of their declaration
RoomsAsDeclared == model.rooms

\* sorted(model.rooms.to_dicts(), key=capacity): Python's sort keeps the order of
\* rooms of equal capacity
rooms_list == SortedBy(model.rooms, [i \in DOMAIN model.rooms |-> model.rooms[i].capacity])

\* events.sort("size", descending=True): larger sizes first, a missing size before
\* every size (polars 1.x, nulls_last=False); equal sizes are kept in input order
SortEventsBySize(evs) ==
    LET top == 1 + SumSeq([i \in DOMAIN evs |-> IF evs[i].size = None THEN 0 ELSE evs[i].size])
    IN SortedBy(evs, [i \in DOMAIN evs |->
                        IF evs[i].size = None THEN 0 ELSE 1 + top - evs[i].size])

\* the candidate teachers with None always added at their end
CandidatesAndNone(event) == event.candidate_teachers \o <<NoneStr>>

\* ev.get("candidate_teachers", []) or [None]
Candidates(event) ==
    IF event.candidate_teachers = <<>> THEN <<NoneStr>> ELSE event.candidate_teachers

\* ev.get("size") or 0
EventSize(event) == IF event.size = None THEN 0 ELSE event.size

\* one pass of the nested loops: teacher, then slot, then room
GreedyCandidates(event) ==
    [t : DOMAIN Candidates(event), s : DOMAIN expanded_slots, r : DOMAIN rooms_list]

GreedyEarlier(c1, c2) ==
    \/ c1.t < c2.t
    \/ c1.t = c2.t /\ c1.s < c2.s
    \/ c1.t = c2.t /\ c1.s = c2.s /\ c1.r < c2.r

\* the test `cap < size` that skips a room
TooSmall(cap, size) == cap < size

\* the candidate passes every `continue` of the loop body
GreedyAdmissible(c, event, tbusy, rbusy) ==
    LET teacher == Candidates(event)[c.t]
        slot == expanded_slots[c.s]
        room == rooms_list[c.r]
    IN /\ ~(teacher # NoneStr /\ slot \in Get(tbusy, teacher, {}))
       /\ ~TooSmall(room.capacity, EventSize(event))
       /\ slot \notin Get(rbusy, room.id, {})

\* the candidate at which the loops append and break: the first admissible one
GreedyTakes(c, event, tbusy, rbusy) ==
    /\ GreedyAdmissible(c, event, tbusy, rbusy)
    /\ \A c2 \in GreedyCandidates(event) :
          GreedyEarlier(c2, c) => ~GreedyAdmissible(c2, event, tbusy, rbusy)

\* busy[key] = {slot}: the slot replaces what the key held
AddBusyReplace(busy, key, slot) ==
    [k \in (DOMAIN busy) \cup {key} |-> IF k = key THEN {slot} ELSE busy[k]]

\* busy.setdefault(key, set()).add(slot)
AddBusy(busy, key, slot) ==
    [k \in (DOMAIN busy) \cup {key} |->
        IF k = key THEN Get(busy, k, {}) \cup {slot} ELSE busy[k]]

\* the slot is recorded under the teacher of the row, None included
MarkAnyTeacher(tbusy, teacher, slot) == AddBusy(tbusy, teacher, slot)

\* the teacher's set after a placement: unchanged when the teacher is None
MarkTeacher(tbusy, teacher, slot) ==
    IF teacher # NoneStr THEN AddBusy(tbusy, teacher, slot) ELSE tbusy

\* events = generate_events(model)
GenerateEvents ==
    /\ prog = "greedy" /\ pc = "start"
    /\ ~IntOfNone(ToDicts(model.subjects))
    /\ events' = GenerateEventsOf(ToDicts(model.subjects))
    /\ pc' = "events"
    /\ UNCHANGED <<model, prog, run, schedule, task, solution, events_sorted, ev,
                   assignments, teacher_busy, room_busy, unassigned, conflicts,
                   violations, first>>

\* generate_events leaves through the TypeError of int(None): no events are returned
GenerateEventsRaises ==
    /\ prog = "greedy" /\ pc = "start"
    /\ IntOfNone(ToDicts(model.subjects))
    /\ pc' = "raised"
    /\ UNCHANGED <<model, prog, run, schedule, task, solution, events, events_sorted,
                   ev, assignments, teacher_busy, room_busy, unassigned, conflicts,
                   violations, first>>

\* greedy_schedule up to its loop: the busy maps and events_sorted
GreedyBegin ==
    /\ prog = "greedy" /\ pc = "events"
    /\ teacher_busy' = DictOf(model.teachers, [i \in DOMAIN model.teachers |-> {}])
    /\ room_busy' = DictOf(model.rooms, [i \in DOMAIN model.rooms |-> {}])
    /\ assignments' = <<>>
    /\ events_sorted' = SortEventsBySize(events)
    /\ ev' = 1
    /\ pc' = "loop"
    /\ UNCHANGED <<model, prog, run, schedule, task, solution, events, unassigned,
                   conflicts, violations, first>>

\* one iteration of `for ev in events_sorted` that assigns
GreedyPlace ==
    /\ prog = "greedy" /\ pc = "loop" /\ ev <= Len(events_sorted)
    /\ LET event == events_sorted[ev]
       IN \E c \in GreedyCandidates(event) :
             LET teacher == Candidates(event)[c.t]
                 slot == expanded_slots[c.s]
                 room_id == rooms_list[c.r].id
             IN /\ GreedyTakes(c, event, teacher_busy, room_busy)
                /\ assignments' = Append(assignments,
                       [event_id |-> event.event_id, subject |-> event.subject,
                        teacher |-> teacher, room |-> room_id,
                        day |-> slot[1], time |-> slot[2]])
                /\ teacher_busy' = MarkTeacher(teacher_busy, teacher, slot)
                /\ room_busy' = AddBusy(room_busy, room_id, slot)
    /\ ev' = ev + 1
    /\ UNCHANGED <<model, prog, pc, run, schedule, task, solution, events,
                   events_sorted, unassigned, conflicts, violations, first>>

\* one iteration that ends with `assigned` still False
GreedyDrop ==
    /\ prog = "greedy" /\ pc = "loop" /\ ev <= Len(events_sorted)
    /\ LET event == events_sorted[ev]
       IN /\ \A c \in GreedyCandidates(event) :
                ~GreedyAdmissible(c, event, teacher_busy, room_busy)
          /\ assignments' = Append(assignments,
                 [event_id |-> event.event_id, subject |-> event.subject,
                  teacher |-> NoneStr, room |-> NoneStr,
                  day |-> NoneStr, time |-> NoneStr])
    /\ ev' = ev + 1
    /\ UNCHANGED <<model, prog, pc, run, schedule, task, solution, events,
                   events_sorted, teacher_busy, room_busy, unassigned, conflicts,
                   violations, first>>

\* unassigned = [r for r in assignments if r["room"] is None]; return
GreedyReturn ==
    /\ prog = "greedy" /\ pc = "loop" /\ ev > Len(events_sorted)
    /\ LET NoRoom(r) == r.room = NoneStr
       IN unassigned' = SelectSeq(assignments, NoRoom)
    /\ pc' = "done"
    /\ UNCHANGED <<model, prog, run, schedule, task, solution, events, events_sorted,
                   ev, assignments, teacher_busy, room_busy, conflicts, violations,
                   first>>

-----------------------------------------------------------------------------
(* The inputs.  Ids are unique within a table, as the dicts keyed by id    *)
(* assume; names need not be.                                              *)

Days == SubSeq(DayPool, 1, NumDays)
Times == SubSeq(TimePool, 1, NumTimes)

\* no break, or one break at the first time: on every day ("*") or on the first day
BreakChoices ==
    {<<>>} \cup {<<[day |-> d, time |-> Times[1]]>> : d \in {"*", Days[1]}}

NoModifiers == [k \in {} |-> 0]
ModifierChoices ==
    {NoModifiers,
     [k \in {"maximum_consecutive_classes"} |-> 1],
     [k \in {"maximum_slot_per_group_per_day"} |-> 1]}

Teacher(id, name, subjects) == [id |-> id, name |-> name, subjects |-> subjects]
Room(id, type, capacity, for) == [id |-> id, type |-> type, capacity |-> capacity, for |-> for]
Group(id, size, subjects) == [id |-> id, size |-> size, subjects |-> subjects]

\* one or two teachers; the second may bear the name of the first
TeacherChoices ==
    LET t1 == {Teacher("T1", "Ann", s) : s \in {<<"S1">>, <<"S1", "S2">>}}
        t2 == {Teacher("T2", "Ann", <<"S2">>), Teacher("T2", "Bob", <<"S1">>)}
    IN {<<a>> : a \in t1} \cup {<<a, b>> : a \in t1, b \in t2}

\* one or two rooms
RoomChoices ==
    LET r1 == {Room("R1", "lecture", c, <<>>) : c \in {10, 30}}
        r2 == {Room("R2", "lecture", 30, <<>>), Room("R2", "lab", 30, <<"S1">>)}
    IN {<<a>> : a \in r1} \cup {<<a, b>> : a \in r1, b \in r2}

\* one or two groups
GroupChoices ==
    LET g1 == {Group("G1", n, s) : n \in {10, 20}, s \in {<<"S1">>, <<"S1", "S2">>}}
        g2 == {Group("G2", 20, <<"S1">>), Group("G2", 10, <<"S2">>)}
    IN {<<a>> : a \in g1} \cup {<<a, b>> : a \in g1, b \in g2}

SolveSubjectChoices ==
    {<<[id |-> "S1", name |-> "Math", type |-> ty],
       [id |-> "S2", name |-> "Physics", type |-> "lecture"]>> : ty \in {"lecture", "lab"}}

SolveModels ==
    {[rooms |-> r, teachers |-> t, subjects |-> s, groups |-> g, days |-> Days,
      times |-> Times, breaks |-> b, modifiers |-> m] :
        r \in RoomChoices, t \in TeacherChoices, s \in SolveSubjectChoices,
        g \in GroupChoices, b \in BreakChoices, m \in ModifierChoices}

\* per-subject demand: no subject, one or two; classes_per_week given or not; a
\* size given or not
Subject(id, name, size) == [id |-> id, name |-> name, type |-> "lecture", size |-> size]
Weekly(subj, n) == [k \in (DOMAIN subj) \cup {"classes_per_week"} |->
                      IF k = "classes_per_week" THEN n ELSE subj[k]]

GreedySubjectChoices ==
    LET s1 == {Subject("S1", "Math", n) : n \in {None, 10, 20}}
        s2 == {Subject("S2", "Physics", n) : n \in {None, 20}}
    IN {<<>>}
       \cup {<<a>> : a \in s1}
       \cup {<<Weekly(a, n)>> : a \in s1, n \in {1, 2}}
       \cup {<<a, b>> : a \in s1, b \in s2}
       \cup {<<Weekly(a, n), Weekly(b, k)>> : a \in s1, n \in {1, 2}, b \in s2, k \in {0, 1}}

\* no teacher, one or two
GreedyTeacherChoices == {<<>>} \cup TeacherChoices

GreedyRoomChoices ==
    LET r1 == {Room("R1", "lecture", c, <<>>) : c \in {10, 30}}
        r2 == {Room("R2", "lecture", c, <<>>) : c \in {10, 30}}
    IN {<<a>> : a \in r1} \cup {<<a, b>> : a \in r1, b \in r2}

GreedyModels ==
    {[rooms |-> r, teachers |-> t, subjects |-> s, groups |-> <<>>, days |-> Days,
      times |-> Times, breaks |-> b, modifiers |-> NoModifiers] :
        r \in GreedyRoomChoices, t \in GreedyTeacherChoices, s \in GreedySubjectChoices,
        b \in BreakChoices}

\* the two one-subject scenarios: one subject required by one group of 20, one
\* qualified teacher, one lecture room of capacity 30 or 10, no break
ScenarioModels ==
    {[rooms |-> <<Room("R1", "lecture", c, <<>>)>>,
      teachers |-> <<Teacher("T1", "Ann", <<"S1">>)>>,
      subjects |-> <<s>>,
      groups |-> <<Group("G1", 20, <<"S1">>)>>,
      days |-> Days, times |-> Times, breaks |-> <<>>, modifiers |-> NoModifiers] :
        c \in {10, 30},
        s \in {[id |-> "S1", name |-> "Math", type |-> "lecture"],
               [id |-> "S1", name |-> "Math", type |-> "lecture", classes_per_week |-> 1]}}

\* tables for the audit alone: any rows, joint sessions and unknown ids included
MaxRows == 2

AuditRows ==
    {[Day |-> Days[1], Time |-> tm, Subject |-> "Math", Teacher |-> te, Room |-> ro,
      Groups |-> JoinGroups(gs)] :
        tm \in {Times[1], Times[NumTimes]}, te \in {"Ann", "Bob"}, ro \in {"R1", "R9"},
        gs \in {<<"G1">>, <<"G2">>, <<"G1", "G2">>, <<"G9">>}}

AuditTables == UNION {[1..n -> AuditRows] : n \in 0..MaxRows}

AuditModels ==
    {[rooms |-> <<Room("R1", "lecture", 10, <<>>)>>,
      teachers |-> <<Teacher("T1", "Ann", <<"S1">>), Teacher("T2", "Bob", <<"S1">>)>>,
      subjects |-> <<[id |-> "S1", name |-> "Math", type |-> "lecture"]>>,
      groups |-> <<Group("G1", n, <<"S1">>), Group("G2", 40, <<"S1">>)>>,
      days |-> Days, times |-> Times, breaks |-> <<>>, modifiers |-> NoModifiers] :
        n \in {10, 20}}

NoResult == <<>>
NoConflicts == [teacher_conflicts |-> <<>>, room_conflicts |-> <<>>, group_conflicts |-> <<>>]

\* the locals of every entry point before it has run
Fresh ==
    /\ schedule = <<>> /\ task = 1
    /\ events = <<>> /\ events_sorted = <<>> /\ ev = 1 /\ assignments = <<>>
    /\ teacher_busy = <<>> /\ room_busy = <<>> /\ unassigned = <<>>
    /\ conflicts = NoConflicts /\ violations = <<>>

\* solve.py: Solver(model).solve(), then the audit of its table
InitSolve ==
    /\ model \in SolveModels \cup ScenarioModels
    /\ prog = "solve" /\ pc = "tasks" /\ run = 1 /\ first = NoResult
    /\ solution = <<>>
    /\ Fresh

\* src/src/solver.py __main__: generate_events, then greedy_schedule
InitGreedy ==
    /\ model \in GreedyModels \cup ScenarioModels
    /\ prog = "greedy" /\ pc = "start" /\ run = 1 /\ first = NoResult
    /\ solution = <<>>
    /\ Fresh

\* the audit of a table that need not come from the Solver
InitAudit ==
    /\ model \in AuditModels
    /\ prog = "audit" /\ pc = "returned" /\ run = 1 /\ first = NoResult
    /\ solution \in AuditTables
    /\ Fresh

Init == InitSolve \/ InitGreedy

Next ==
    \/ SolvePlace
    \/ SolveSkip
    \/ SolveReturn
    \/ AuditConflicts
    \/ AuditCapacity
    \/ GenerateEvents
    \/ GreedyBegin
    \/ GreedyPlace
    \/ GreedyDrop
    \/ GreedyReturn

Spec == Init /\ [][Next]_vars

NextAudit ==
    \/ AuditConflicts
    \/ AuditCapacity

SpecAudit == InitAudit /\ [][NextAudit]_vars

\* the same entry point called again on the same Model, the first result kept
Rerun ==
    /\ pc = "done" /\ run = 1
    /\ first' = [schedule |-> schedule, solution |-> solution,
                 assignments |-> assignments, unassigned |-> unassigned]
    /\ run' = 2
    /\ pc' = IF prog = "solve" THEN "tasks" ELSE "start"
    /\ schedule' = <<>> /\ task' = 1 /\ solution' = <<>>
    /\ events' = <<>> /\ events_sorted' = <<>> /\ ev' = 1 /\ assignments' = <<>>
    /\ teacher_busy' = <<>> /\ room_busy' = <<>> /\ unassigned' = <<>>
    /\ conflicts' = NoConflicts /\ violations' = <<>>
    /\ UNCHANGED <<model, prog>>

NextRerun ==
    \/ Next
    \/ Rerun

\* the runs that are repeated: the Solver inputs without modifiers, the greedy
\* inputs without breaks
InitRerun ==
    \/ InitSolve /\ model.modifiers = NoModifiers
    \/ InitGreedy /\ model.breaks = <<>>

SpecRerun == InitRerun /\ [][NextRerun]_vars

-----------------------------------------------------------------------------
(* The audit called a second time: on the same table, or on the same rows  *)
(* in another order.                                                       *)

\* the tables of the repeated audit hold up to MaxAuditRows rows
MaxAuditRows == 4

\* every arrangement of the rows of a table
RowOrders(df) ==
    {[i \in DOMAIN df |-> df[p[i]]] :
        p \in {q \in [DOMAIN df -> DOMAIN df] : \A i, j \in DOMAIN df : q[i] = q[j] => i = j}}

\* rows in one room, at either time, with either teacher, for the group G1
ReauditRows ==
    {[Day |-> Days[1], Time |-> tm, Subject |-> "Math", Teacher |-> te, Room |-> "R1",
      Groups |-> JoinGroups(<<"G1">>)] :
        tm \in {Times[1], Times[NumTimes]}, te \in {"Ann", "Bob"}}

ReauditTables == UNION {[1..n -> ReauditRows] : n \in 0..MaxAuditRows}

InitReaudit ==
    /\ model \in AuditModels
    /\ prog = "audit" /\ pc = "returned" /\ run = 1 /\ first = NoResult
    /\ solution \in ReauditTables
    /\ Fresh

\* both audit functions called again, the first reports kept: on the table as it
\* is, or on a table that holds the same rows in another order
AuditAgain ==
    /\ prog = "audit" /\ pc = "done" /\ run = 1
    /\ first' = [solution |-> solution, conflicts |-> conflicts, violations |-> violations]
    /\ solution' \in RowOrders(solution)
    /\ conflicts' = NoConflicts /\ violations' = <<>>
    /\ run' = 2
    /\ pc' = "returned"
    /\ UNCHANGED <<model, prog, schedule, task, events, events_sorted, ev, assignments,
                   teacher_busy, room_busy, unassigned>>

NextReaudit ==
    \/ AuditConflicts
    \/ AuditCapacity
    \/ AuditAgain

SpecReaudit == InitReaudit /\ [][NextReaudit]_vars

-----------------------------------------------------------------------------
(* Models that declare a subject of a type that is neither "lecture" nor   *)
(* "lab".                                                                  *)

UnknownTypeSubjectChoices ==
    {<<[id |-> "S1", name |-> "Math", type |-> ty[1], size |-> 10],
       [id |-> "S2", name |-> "Physics", type |-> ty[2], size |-> 20]>> :
        ty \in {<<"seminar", "lecture">>, <<"lecture", "seminar">>}}

UnknownTypeModels ==
    {[rooms |-> r, teachers |-> t, subjects |-> s, groups |-> g, days |-> Days,
      times |-> Times, breaks |-> <<>>, modifiers |-> NoModifiers] :
        r \in RoomChoices, t \in TeacherChoices, s \in UnknownTypeSubjectChoices,
        g \in GroupChoices}

InitUnknownType ==
    /\ model \in UnknownTypeModels
    /\ \/ prog = "solve" /\ pc = "tasks"
       \/ prog = "greedy" /\ pc = "start"
    /\ run = 1 /\ first = NoResult
    /\ solution = <<>>
    /\ Fresh

SpecUnknownType == InitUnknownType /\ [][Next]_vars

-----------------------------------------------------------------------------
(* Models with one time label more a day, so that a day has room for a run *)
(* of sessions longer than the default maximum of consecutive classes.     *)

LongTimes == SubSeq(TimePool, 1, NumTimes + 1)

LongDaySolveModels ==
    {[rooms |-> r, teachers |-> t, subjects |-> s, groups |-> g, days |-> Days,
      times |-> LongTimes, breaks |-> <<>>, modifiers |-> m] :
        r \in RoomChoices, t \in TeacherChoices, s \in SolveSubjectChoices,
        g \in GroupChoices,
        m \in {NoModifiers, [k \in {"maximum_consecutive_classes"} |-> 1]}}

LongDayGreedyModels ==
    {[rooms |-> r, teachers |-> t, subjects |-> s, groups |-> <<>>, days |-> Days,
      times |-> LongTimes, breaks |-> <<>>, modifiers |-> NoModifiers] :
        r \in GreedyRoomChoices, t \in GreedyTeacherChoices, s \in GreedySubjectChoices}

InitLongDay ==
    /\ \/ model \in LongDaySolveModels /\ prog = "solve" /\ pc = "tasks"
       \/ model \in LongDayGreedyModels /\ prog = "greedy" /\ pc = "start"
    /\ run = 1 /\ first = NoResult
    /\ solution = <<>>
    /\ Fresh

SpecLongDay == InitLongDay /\ [][Next]_vars

-----------------------------------------------------------------------------
(* Models with lecture and lab rooms and lecture and lab subjects, for     *)
(* both solvers.                                                           *)

TypedSubjectChoices ==
    LET s1 == {[id |-> "S1", name |-> "Math", type |-> ty, size |-> n] :
                  ty \in {"lecture", "lab"}, n \in {10, 20}}
        s2 == [id |-> "S2", name |-> "Physics", type |-> "lecture", size |-> 20]
    IN {<<a>> : a \in s1} \cup {<<a, s2>> : a \in s1}

TypedModels ==
    {[rooms |-> r, teachers |-> t, subjects |-> s, groups |-> g, days |-> Days,
      times |-> Times, breaks |-> <<>>, modifiers |-> NoModifiers] :
        r \in RoomChoices, t \in TeacherChoices, s \in TypedSubjectChoices,
        g \in {<<Group("G1", 10, <<"S1">>)>>,
               <<Group("G1", 10, <<"S1">>), Group("G2", 20, <<"S1">>)>>}}

InitTyped ==
    /\ model \in TypedModels
    /\ \/ prog = "solve" /\ pc = "tasks"
       \/ prog = "greedy" /\ pc = "start"
    /\ run = 1 /\ first = NoResult
    /\ solution = <<>>
    /\ Fresh

SpecTyped == InitTyped /\ [][Next]_vars

\* generate_events alone, on subject lists in which each subject gives its own
\* classes_per_week (0, 1 or 2) or gives none
CountedSubjectChoices ==
    LET Counted(s) == {s} \cup {Weekly(s, n) : n \in {0, 1, 2}}
        s1 == Counted(Subject("S1", "Math", 10))
        s2 == Counted(Subject("S2", "Physics", 20))
    IN {<<>>} \cup {<<a>> : a \in s1} \cup {<<a, b>> : a \in s1, b \in s2}

CountedModels ==
    {[rooms |-> <<Room("R1", "lecture", 30, <<>>)>>, teachers |-> t, subjects |-> s,
      groups |-> <<>>, days |-> Days, times |-> Times, breaks |-> <<>>,
      modifiers |-> NoModifiers] :
        t \in GreedyTeacherChoices, s \in CountedSubjectChoices}

InitEvents ==
    /\ model \in CountedModels
    /\ prog = "greedy" /\ pc = "start" /\ run = 1 /\ first = NoResult
    /\ solution = <<>>
    /\ Fresh

NextEvents ==
    \/ GenerateEvents
    \/ GenerateEventsRaises

SpecEvents == InitEvents /\ [][NextEvents]_vars

-----------------------------------------------------------------------------
(* What the entry points return.                                           *)

\* Solver.solve returns the table alone: it keeps no list of the requests it
\* left unplaced, so the caller receives none
SolveUnassigned == <<>>

\* the rows of greedy_schedule's assignments that hold a placement
Placed(rows) == LET HasRoom(r) == r.room # NoneStr IN SelectSeq(rows, HasRoom)

\* (day, time) matches a break entry: the same day, or the wildcard day "*"
MatchesBreak(day, time) ==
    \E i \in DOMAIN model.breaks :
        /\ model.breaks[i].time = time
        /\ model.breaks[i].day \in {day, "*"}

\* the declared size of a group and the declared capacity of a room
SizeOfGroup(group_id) == (CHOOSE g \in Range(model.groups) : g.id = group_id).size
CapacityOfRoom(room_id) == (CHOOSE r \in Range(model.rooms) : r.id = room_id).capacity
SizeOfEvent(event_id) ==
    LET e == CHOOSE x \in Range(events) : x.event_id = event_id
    IN IF e.size = None THEN 0 ELSE e.size

-----------------------------------------------------------------------------
(* C1..C10                                                                 *)

\* C1: at every step of Solver.solve, and of greedy_schedule, no two placed
\* sessions at the same (day, time) have the same teacher, the same room or a
\* group in common.
C1_NoDoubleBooking ==
    /\ \A i, j \in DOMAIN schedule :
          (i < j /\ schedule[i].day = schedule[j].day /\ schedule[i].time = schedule[j].time)
          => /\ schedule[i].teacher # schedule[j].teacher
             /\ schedule[i].room # schedule[j].room
             /\ Range(schedule[i].groups) \cap Range(schedule[j].groups) = {}
    /\ LET placed == Placed(assignments)
       IN \A i, j \in DOMAIN placed :
             (i < j /\ placed[i].day = placed[j].day /\ placed[i].time = placed[j].time)
             => /\ placed[i].teacher = NoneStr \/ placed[i].teacher # placed[j].teacher
                /\ placed[i].room # placed[j].room

\* C1 witness: Solver.solve has placed two sessions at one (day, time), the second
\* one with a teacher who was busy at an earlier slot.
C1_Witness ==
    /\ prog = "solve"
    /\ \E i, j \in DOMAIN schedule :
          /\ i < j
          /\ schedule[i].day = schedule[j].day /\ schedule[i].time = schedule[j].time
    /\ \E i, j \in DOMAIN schedule :
          /\ i < j
          /\ schedule[i].teacher = schedule[j].teacher
          /\ schedule[i].time # schedule[j].time

\* C2: detect_conflicts on the table Solver.solve returned reports no teacher
\* conflict, no room conflict and no group conflict.
C2_AuditFindsNoConflict ==
    (prog = "solve" /\ pc \in {"conflicts", "done"})
    => /\ conflicts.teacher_conflicts = <<>>
       /\ conflicts.room_conflicts = <<>>
       /\ conflicts.group_conflicts = <<>>

\* C3: no session is placed at a (day, time) that matches a break entry, exact day
\* or wildcard, by Solver.solve or by greedy_schedule.
C3_NoSessionInBreak ==
    /\ \A i \in DOMAIN schedule : ~MatchesBreak(schedule[i].day, schedule[i].time)
    /\ \A i \in DOMAIN assignments :
          assignments[i].room # NoneStr
          => ~MatchesBreak(assignments[i].day, assignments[i].time)

\* C4: every placed session's groups (for greedy_schedule, the event's size) fit
\* the capacity of its room, and detect_capacity_violations on Solver.solve's table
\* reports nothing.
C4_CapacityRespected ==
    /\ \A i \in DOMAIN schedule :
          SumSeq([k \in DOMAIN schedule[i].groups |-> SizeOfGroup(schedule[i].groups[k])])
            <= CapacityOfRoom(schedule[i].room)
    /\ \A i \in DOMAIN assignments :
          assignments[i].room # NoneStr
          => SizeOfEvent(assignments[i].event_id) <= CapacityOfRoom(assignments[i].room)
    /\ (prog = "solve" /\ pc = "done") => violations = <<>>

\* C4 witness: the audit has run on a table with a session that fills its room
\* exactly, for a model that also has a room too small for that group.
C4_Witness ==
    /\ prog = "solve" /\ pc = "done"
    /\ \E i \in DOMAIN schedule :
          /\ SizeOfGroup(schedule[i].groups[1]) = CapacityOfRoom(schedule[i].room)
    /\ \E i \in DOMAIN schedule, r \in Range(model.rooms) :
          /\ r.type = "lecture" /\ subject_type[schedule[i].subject] = "lecture"
          /\ SizeOfGroup(schedule[i].groups[1]) > r.capacity

\* C5: when the solve has returned, every request that was not placed is in the
\* unassigned list it returned.
C5_DroppedAreReturned ==
    /\ (prog = "solve" /\ pc \in {"returned", "conflicts", "done"})
       => \A k \in DOMAIN scheduling_tasks :
             \/ \E i \in DOMAIN schedule :
                   /\ schedule[i].subject = scheduling_tasks[k][1]
                   /\ schedule[i].groups = <<scheduling_tasks[k][2]>>
             \/ scheduling_tasks[k] \in Range(SolveUnassigned)
    /\ (prog = "greedy" /\ pc = "done")
       => \A k \in DOMAIN events :
             \/ \E i \in DOMAIN assignments :
                   assignments[i].event_id = events[k].event_id
                   /\ assignments[i].room # NoneStr
             \/ \E i \in DOMAIN unassigned : unassigned[i].event_id = events[k].event_id

\* C6: when the solve has returned, placed plus dropped equals the number of
\* generated requests.
C6_PlacedPlusDropped ==
    /\ (prog = "solve" /\ pc \in {"returned", "conflicts", "done"})
       => Len(solution) + Len(SolveUnassigned) = Len(scheduling_tasks)
    /\ (prog = "greedy" /\ pc = "done")
       => Len(Placed(assignments)) + Len(unassigned) = Len(events)

\* the rows of the audited table at a slot, and those among them that hold a
\* given value in a column, or a given group id in their Groups cell
RowsAt(slot) == SlotClasses(solution, slot[1], slot[2])
RowsWith(slot, col, v) == LET Holds(row) == row[col] = v IN SelectSeq(RowsAt(slot), Holds)
RowsOfGroup(slot, g) ==
    LET Holds(row) == g \in Range(SplitGroups(row.Groups)) IN SelectSeq(RowsAt(slot), Holds)
GroupIdsAt(slot) ==
    UNION {Range(SplitGroups(RowsAt(slot)[i].Groups)) : i \in DOMAIN RowsAt(slot)}

\* the records of a list that are about a slot
RecordsAt(list, slot) == {i \in DOMAIN list : list[i].day = slot[1] /\ list[i].time = slot[2]}

\* C7: detect_conflicts reports, at every (day, time), each teacher, each room and
\* each single group id that more than one session of the slot holds, in exactly
\* one record that carries all those sessions, and reports nothing else; a group
\* id shared by a joint session and another session is reported too.
C7_ConflictsComplete ==
    (pc \in {"conflicts", "done"} /\ prog = "audit")
    => \A slot \in TimeSlots(solution) :
          /\ \A te \in {RowsAt(slot)[i].Teacher : i \in DOMAIN RowsAt(slot)} :
                Cardinality({i \in RecordsAt(conflicts.teacher_conflicts, slot) :
                               /\ conflicts.teacher_conflicts[i].teacher = te
                               /\ conflicts.teacher_conflicts[i].classes
                                    = RowsWith(slot, "Teacher", te)})
                  = IF Len(RowsWith(slot, "Teacher", te)) > 1 THEN 1 ELSE 0
          /\ \A ro \in {RowsAt(slot)[i].Room : i \in DOMAIN RowsAt(slot)} :
                Cardinality({i \in RecordsAt(conflicts.room_conflicts, slot) :
                               /\ conflicts.room_conflicts[i].room = ro
                               /\ conflicts.room_conflicts[i].classes
                                    = RowsWith(slot, "Room", ro)})
                  = IF Len(RowsWith(slot, "Room", ro)) > 1 THEN 1 ELSE 0
          /\ \A g \in GroupIdsAt(slot) :
                Cardinality({i \in RecordsAt(conflicts.group_conflicts, slot) :
                               /\ g \in Range(SplitGroups(conflicts.group_conflicts[i].group))
                               /\ conflicts.group_conflicts[i].classes = RowsOfGroup(slot, g)})
                  = IF Len(RowsOfGroup(slot, g)) > 1 THEN 1 ELSE 0

\* the sum of the sizes of the groups a row names (an unknown group counts 0) and
\* the capacity of its room (an unknown room counts 50)
RowStudents(row) ==
    LET ids == SplitGroups(row.Groups)
        Known(g) == \E x \in Range(model.groups) : x.id = g
    IN SumSeq([k \in DOMAIN ids |-> IF Known(ids[k]) THEN SizeOfGroup(ids[k]) ELSE 0])
RowCapacity(row) ==
    IF \E r \in Range(model.rooms) : r.id = row.Room THEN CapacityOfRoom(row.Room) ELSE 50

\* C8: detect_capacity_violations emits a record for a row exactly when the row's
\* students outnumber its room's capacity, in row order, with overflow = students
\* minus capacity; a row that fills its room exactly is not reported.
C8_ViolationsExact ==
    (pc = "done" /\ prog = "audit")
    => LET Over(row) == RowStudents(row) > RowCapacity(row)
           over == SelectSeq(solution, Over)
       IN /\ Len(violations) = Len(over)
          /\ \A k \in DOMAIN violations :
                /\ violations[k].day = over[k].Day /\ violations[k].time = over[k].Time
                /\ violations[k].room = over[k].Room
                /\ violations[k].groups = SplitGroups(over[k].Groups)
                /\ violations[k].total_students = RowStudents(over[k])
                /\ violations[k].room_capacity = RowCapacity(over[k])
                /\ violations[k].overflow = RowStudents(over[k]) - RowCapacity(over[k])
                /\ violations[k].overflow > 0

\* C8 witness: the audit has run on a table that holds a joint session in an
\* unknown room that fills the default capacity exactly and is not reported, and a
\* session in a known room that is reported with its overflow.
C8_Witness ==
    /\ pc = "done" /\ prog = "audit"
    /\ \E i \in DOMAIN solution :
          /\ solution[i].Room = "R9"
          /\ Len(SplitGroups(solution[i].Groups)) = 2
          /\ RowStudents(solution[i]) = RowCapacity(solution[i])
    /\ Len(solution) = 2
    /\ Len(violations) = 1
    /\ violations[1].room = "R1"
    /\ violations[1].overflow = 30

ScenarioTooSmall ==
    /\ Len(model.subjects) = 1 /\ model.subjects[1].type = "lecture"
    /\ Len(model.groups) = 1 /\ model.groups[1].size = 20
    /\ model.groups[1].subjects = <<model.subjects[1].id>>
    /\ Len(model.teachers) = 1 /\ model.teachers[1].subjects = <<model.subjects[1].id>>
    /\ Len(model.rooms) = 1 /\ model.rooms[1].type = "lecture"
    /\ model.rooms[1].capacity = 10
    /\ model.breaks = <<>>

\* C10: in that scenario the request is placed at no slot and the returned
\* unassigned list has length 1.
C10_ScenarioDropsOne ==
    /\ (ScenarioTooSmall /\ prog = "solve" /\ pc \in {"returned", "conflicts", "done"})
       => schedule = <<>> /\ solution = <<>> /\ Len(SolveUnassigned) = 1
    /\ (ScenarioTooSmall /\ prog = "greedy" /\ pc = "done")
       => Placed(assignments) = <<>> /\ Len(unassigned) = 1

-----------------------------------------------------------------------------
(* C11..C20                                                                *)

\* C11: an audit step leaves the table it reads unchanged, and the audit run a
\* second time on the same table returns the conflict report and the
\* capacity-violation report of the first run.
C11_AuditTwiceAgrees ==
    [][/\ (prog = "audit" /\ pc \in {"returned", "conflicts"}) => solution' = solution
       /\ (prog = "audit" /\ pc = "conflicts" /\ run = 2 /\ solution = first.solution)
          => /\ conflicts' = first.conflicts
             /\ violations' = first.violations]_vars

\* C12: the audit of a table that holds the rows of an audited table in another
\* order returns the conflict report and the capacity-violation report of that
\* table.
C12_PermutationAgrees ==
    (prog = "audit" /\ pc = "done" /\ run = 2)
    => /\ conflicts = first.conflicts
       /\ violations = first.violations

\* the tuples the nested loops of the request in hand can reach
SolveTried == Cardinality(SolveCandidates(scheduling_tasks[task][1]))
GreedyTried == Cardinality(GreedyCandidates(events_sorted[ev]))

\* |teachers| x |days| x |times| x |rooms|, and the same with one teacher counted
\* where none is declared
SearchProduct == Len(model.teachers) * Len(days) * Len(times) * Len(model.rooms)
SearchProductOrNone ==
    (IF model.teachers = <<>> THEN 1 ELSE Len(model.teachers))
      * Len(days) * Len(times) * Len(model.rooms)

\* a step of either loop takes the next request, never an earlier one, reaches at
\* most `limit` tuples for it, and the step after the last request returns
OnePass(limit) ==
    /\ (prog = "solve" /\ pc = "tasks" /\ task <= Len(scheduling_tasks))
       => task' = task + 1 /\ pc' = "tasks" /\ SolveTried <= limit
    /\ (prog = "solve" /\ pc = "tasks" /\ task > Len(scheduling_tasks))
       => task' = task /\ pc' = "returned"
    /\ (prog = "solve" /\ pc # "tasks") => task' = task /\ schedule' = schedule
    /\ (prog = "greedy" /\ pc = "loop" /\ ev <= Len(events_sorted))
       => /\ ev' = ev + 1 /\ pc' = "loop" /\ events_sorted' = events_sorted
          /\ Len(assignments') = Len(assignments) + 1
          /\ GreedyTried <= limit
    /\ (prog = "greedy" /\ pc = "loop" /\ ev > Len(events_sorted))
       => ev' = ev /\ pc' = "done" /\ assignments' = assignments

\* C13, as stated: the run never stops short of its end, every step of either loop
\* takes the next request once, and the search of a request reaches at most
\* |teachers| x |days| x |times| x |rooms| tuples.
C13_SearchWithinProduct ==
    /\ [](pc = "done" \/ ENABLED Next)
    /\ [][OnePass(SearchProduct)]_vars

\* C13, amended: the same, the search of a request reaching at most
\* max(1, |teachers|) x |days| x |times| x |rooms| tuples: greedy_schedule searches
\* with the teacher None when the request has no candidate teacher.
C13_SearchWithinProductOrNone ==
    /\ [](pc = "done" \/ ENABLED Next)
    /\ [][OnePass(SearchProductOrNone)]_vars

\* C13 witness: greedy_schedule has returned for a model without teachers, with
\* a request placed (teacher None) and a request dropped.
C13_Witness ==
    /\ prog = "greedy" /\ pc = "done"
    /\ model.teachers = <<>>
    /\ Placed(assignments) # <<>>
    /\ unassigned # <<>>

\* the model declares a subject whose type is neither "lecture" nor "lab"
UnknownType ==
    \E i \in DOMAIN model.subjects : model.subjects[i].type \notin {"lecture", "lab"}

\* C14: for a model with a subject of unknown type the solve stops before it
\* places anything: no session is ever in the schedule of Solver.solve, in its
\* table, or among the assignments of greedy_schedule.
C14_UnknownTypeStopsSolve ==
    UnknownType
    => /\ schedule = <<>>
       /\ solution = <<>>
       /\ Placed(assignments) = <<>>

\* the position of a teacher and of a room in the declared tables
TeacherPos(teacher_id) == CHOOSE i \in DOMAIN model.teachers : model.teachers[i].id = teacher_id
RoomPos(room_id) == CHOOSE i \in DOMAIN model.rooms : model.rooms[i].id = room_id

\* a is before b in the order of four nested loops, the first entry outermost
Before4(a, b) ==
    \E k \in 1..4 : a[k] < b[k] /\ \A j \in 1..(k - 1) : a[j] = b[j]

\* every check of Solver.solve on a tuple, against a schedule
PassesSolve(teacher_id, day, time, room_id, subject_id, group_id, sched) ==
    /\ NoBreak(day, time)
    /\ TeacherAvailable(teacher_id, day, time, sched)
    /\ GroupAvailable(group_id, day, time, sched)
    /\ MaxConsecutiveOk(teacher_id, day, time, sched)
    /\ MaxSlotsPerGroupPerDayOk(group_id, day, sched)
    /\ ValidRoomForSubject(room_id, subject_id)
    /\ RoomAvailable(room_id, day, time, sched)
    /\ CapacitySufficient(room_id, <<group_id>>)

\* a step of Solver.solve that appends a session: its tuple passes the checks
\* against the schedule before the step, and no tuple of a teacher of the subject
\* before it in the order teacher, day, time, room (all as declared) does
SolveFirstFit ==
    (prog = "solve" /\ pc = "tasks" /\ Len(schedule') = Len(schedule) + 1)
    => LET s == schedule'[Len(schedule')]
           at == <<TeacherPos(s.teacher), IndexOf(days, s.day), IndexOf(times, s.time),
                   RoomPos(s.room)>>
       IN /\ s.subject \in Range(model.teachers[at[1]].subjects)
          /\ PassesSolve(s.teacher, s.day, s.time, s.room, s.subject, s.groups[1], schedule)
          /\ \A ti \in DOMAIN model.teachers, d \in DOMAIN days, m \in DOMAIN times,
                r \in DOMAIN model.rooms :
                (/\ Before4(<<ti, d, m, r>>, at)
                 /\ s.subject \in Range(model.teachers[ti].subjects))
                => ~PassesSolve(model.teachers[ti].id, days[d], times[m],
                                model.rooms[r].id, s.subject, s.groups[1], schedule)

\* rooms in ascending capacity, rooms of one capacity as declared: the rank of a room
CapacityRank(r) ==
    Cardinality({j \in DOMAIN model.rooms :
                    \/ model.rooms[j].capacity < model.rooms[r].capacity
                    \/ model.rooms[j].capacity = model.rooms[r].capacity /\ j < r})

\* every check of greedy_schedule on a tuple, against the assignments made so far;
\* teacher position 0 stands for the teacher None of a request without candidates
PassesGreedy(ti, day, time, r, event, made) ==
    /\ <<day, time>> \notin GreedyBreaks
    /\ ti # 0 => \A i \in DOMAIN made :
                    ~(made[i].teacher = model.teachers[ti].id
                      /\ made[i].day = day /\ made[i].time = time)
    /\ model.rooms[r].capacity >= EventSize(event)
    /\ \A i \in DOMAIN made :
          ~(made[i].room = model.rooms[r].id /\ made[i].day = day /\ made[i].time = time)

\* a step of greedy_schedule that appends a placement: its tuple passes the checks
\* against the assignments before the step, and no tuple before it in the order
\* candidate teacher (as declared), day, time, room (ascending capacity) does
GreedyFirstFit ==
    (/\ prog = "greedy" /\ pc = "loop" /\ Len(assignments') = Len(assignments) + 1
     /\ assignments'[Len(assignments')].room # NoneStr)
    => LET a == assignments'[Len(assignments')]
           event == events_sorted[ev]
           Teaches(ti) == event.subject \in Range(model.teachers[ti].subjects)
           teacher_positions ==
               IF \E ti \in DOMAIN model.teachers : Teaches(ti)
               THEN {ti \in DOMAIN model.teachers : Teaches(ti)} ELSE {0}
           at == <<IF a.teacher = NoneStr THEN 0 ELSE TeacherPos(a.teacher),
                   IndexOf(days, a.day), IndexOf(times, a.time),
                   CapacityRank(RoomPos(a.room))>>
       IN /\ a.event_id = event.event_id
          /\ at[1] \in teacher_positions
          /\ PassesGreedy(at[1], a.day, a.time, RoomPos(a.room), event, assignments)
          /\ \A ti \in teacher_positions, d \in DOMAIN days, m \in DOMAIN times,
                r \in DOMAIN model.rooms :
                Before4(<<ti, d, m, CapacityRank(r)>>, at)
                => ~PassesGreedy(ti, days[d], times[m], r, event, assignments)

\* C15: a placed request gets the first tuple, in the order teacher, day, time,
\* room, that passes every check of its solver against the schedule as it stood;
\* no admissible tuple earlier in that order exists.
C15_FirstFit == [][SolveFirstFit /\ GreedyFirstFit]_vars

\* C15 witness: Solver.solve has placed a session on the second day, with the
\* second teacher, in the second room: every earlier tuple had failed a check.
C15_Witness ==
    /\ prog = "solve"
    /\ \E i \in DOMAIN schedule :
          /\ schedule[i].day = days[2]
          /\ Len(model.teachers) = 2 /\ schedule[i].teacher = model.teachers[2].id
          /\ Len(model.rooms) = 2 /\ schedule[i].room = model.rooms[2].id

\* C16: requests are attempted in generation order. Solver.solve: the sessions of
\* the schedule follow the order of scheduling_tasks (groups as declared, the
\* subjects of a group as declared). greedy_schedule: the k-th assignment made is
\* that of the k-th generated event (subjects as declared, occurrences 1..N); no
\* sort by size comes between.
C16_GenerationOrder ==
    /\ prog = "solve"
       => \A i, j \in DOMAIN schedule :
             i < j => \E k, l \in DOMAIN scheduling_tasks :
                        /\ k < l /\ l < task
                        /\ scheduling_tasks[k] = <<schedule[i].subject, schedule[i].groups[1]>>
                        /\ scheduling_tasks[l] = <<schedule[j].subject, schedule[j].groups[1]>>
    /\ prog = "greedy"
       => \A k \in DOMAIN assignments : assignments[k].event_id = events[k].event_id

\* the time-slot indices (positions in the declared time labels) at which a
\* teacher has a session on a day, in the schedule of Solver.solve or among the
\* placements of greedy_schedule
TeacherSlotIndices(teacher_id, day) ==
    {IndexOf(times, schedule[i].time) :
        i \in {j \in DOMAIN schedule :
                 schedule[j].teacher = teacher_id /\ schedule[j].day = day}}
    \cup {IndexOf(times, assignments[i].time) :
            i \in {j \in DOMAIN assignments :
                     assignments[j].teacher = teacher_id /\ assignments[j].day = day}}

\* the length of the longest run of consecutive integers in a set
LongestRun(S) ==
    LET IsRun(lo, n) == \A k \in lo..(lo + n - 1) : k \in S
        lengths == {n \in 0..Cardinality(S) : \E lo \in S \cup {1} : IsRun(lo, n)}
    IN CHOOSE n \in lengths : \A k \in lengths : k <= n

\* C17: at every step, no teacher has on any day a run of sessions at consecutive
\* time-slot indices longer than max_consec (2 unless configured), in the schedule
\* of Solver.solve and among the placements of greedy_schedule.
C17_MaxConsecutive ==
    \A i \in DOMAIN model.teachers, d \in DOMAIN days :
        LongestRun(TeacherSlotIndices(model.teachers[i].id, days[d])) <= max_consec

\* the number of sessions of a group on a day in the schedule of Solver.solve
GroupDayLoad(group_id, day) ==
    Cardinality({i \in DOMAIN schedule :
                    schedule[i].day = day /\ group_id \in Range(schedule[i].groups)})

\* C18: with a maximum of slots per group per day configured, at every step of
\* Solver.solve no group has more sessions than that on any day; with none
\* configured (None), the check on the daily load passes for every group and day
\* against every schedule reached, whatever the group's load is.
C18_MaxSlotsPerGroupPerDay ==
    /\ max_slots_per_group_per_day # None
       => \A g \in DOMAIN model.groups, d \in DOMAIN days :
             GroupDayLoad(model.groups[g].id, days[d]) <= max_slots_per_group_per_day
    /\ max_slots_per_group_per_day = None
       => \A g \in DOMAIN model.groups, d \in DOMAIN days :
             MaxSlotsPerGroupPerDayOk(model.groups[g].id, days[d], schedule)

\* C18 witness: with a maximum of 1 configured, Solver.solve has placed the first
\* request of a group on the first day and its second request on the second day.
C18_Witness ==
    /\ prog = "solve" /\ max_slots_per_group_per_day = 1
    /\ \E i, j \in DOMAIN schedule :
          /\ i < j
          /\ schedule[i].groups = schedule[j].groups
          /\ schedule[i].day = days[1] /\ schedule[j].day = days[2]
          /\ schedule[j].time = times[1]

\* a declared room and a declared subject are compatible: both "lecture", or
\* both "lab" with the subject in the room's `for` list
Compatible(room_id, subject_id) ==
    LET room == CHOOSE r \in Range(model.rooms) : r.id = room_id
        subj == CHOOSE s \in Range(model.subjects) : s.id = subject_id
    IN \/ room.type = "lecture" /\ subj.type = "lecture"
       \/ room.type = "lab" /\ subj.type = "lab" /\ subject_id \in Range(room.for)

\* C19: at every step every placed session's room is compatible with its
\* subject, in the schedule of Solver.solve and among the placements of
\* greedy_schedule.
C19_RoomCompatible ==
    /\ \A i \in DOMAIN schedule : Compatible(schedule[i].room, schedule[i].subject)
    /\ \A i \in DOMAIN assignments :
          assignments[i].room # NoneStr
          => Compatible(assignments[i].room, assignments[i].subject)

\* s2 is s1, or s1 with one entry appended
ExtendsByAtMostOne(s1, s2) ==
    \/ s2 = s1
    \/ Len(s2) = Len(s1) + 1 /\ SubSeq(s2, 1, Len(s1)) = s1

\* the two sequences hold the same entries the same number of times
SameEntries(s1, s2) ==
    /\ Len(s1) = Len(s2)
    /\ \A x \in Range(s1) \cup Range(s2) :
          Cardinality({i \in DOMAIN s1 : s1[i] = x}) = Cardinality({i \in DOMAIN s2 : s2[i] = x})

\* C20: every step leaves the placed sessions as they are and appends at most
\* one, to the schedule of Solver.solve and to the assignments of greedy_schedule;
\* the index of the request in hand never moves back, so no request is attempted
\* twice (no event has two assignments); and the table Solver.solve returns holds
\* the row of every session of the schedule, none changed or removed.
C20_AppendOnly ==
    [][/\ ExtendsByAtMostOne(schedule, schedule')
       /\ ExtendsByAtMostOne(assignments, assignments')
       /\ task' \in {task, task + 1}
       /\ ev' \in {ev, ev + 1}
       /\ (task' = task + 1) => Len(schedule') <= task
       /\ \A i, j \in DOMAIN assignments' :
             assignments'[i].event_id = assignments'[j].event_id => i = j
       /\ (pc = "tasks" /\ pc' = "returned")
          => SameEntries(solution', [i \in DOMAIN schedule |-> Row(schedule[i])])]_vars

\* C20 witness: Solver.solve has placed its first request, left its second
\* unplaced and placed its third, the first session still in its place.
C20_Witness ==
    /\ prog = "solve" /\ pc = "returned"
    /\ Len(scheduling_tasks) = 3
    /\ Len(schedule) = 2
    /\ <<schedule[1].subject, schedule[1].groups[1]>> = scheduling_tasks[1]
    /\ <<schedule[2].subject, schedule[2].groups[1]>> = scheduling_tasks[3]

-----------------------------------------------------------------------------
(* The room greedy_schedule gives, its availability index, generate_events,  *)
(* the requests Solver.solve leaves out, and the shape of the greedy rows.   *)

\* room r is free at (day, time) according to the assignments made so far
RoomFreeIn(made, r, day, time) ==
    \A i \in DOMAIN made :
        ~(made[i].room = model.rooms[r].id /\ made[i].day = day /\ made[i].time = time)

\* a step of greedy_schedule that appends a placement: the room is free at the slot
\* and holds the request, and no free room that holds it has a smaller capacity
SmallestRoomThatFits ==
    (/\ prog = "greedy" /\ pc = "loop" /\ Len(assignments') = Len(assignments) + 1
     /\ assignments'[Len(assignments')].room # NoneStr)
    => LET a == assignments'[Len(assignments')]
           size == EventSize(events_sorted[ev])
           chosen == RoomPos(a.room)
       IN /\ RoomFreeIn(assignments, chosen, a.day, a.time)
          /\ model.rooms[chosen].capacity >= size
          /\ \A r \in DOMAIN model.rooms :
                (RoomFreeIn(assignments, r, a.day, a.time)
                 /\ model.rooms[r].capacity >= size)
                => model.rooms[chosen].capacity <= model.rooms[r].capacity

\* C21: when greedy_schedule places a request, the room it gives is one of smallest
\* capacity among the rooms that are free at the chosen slot and large enough for
\* the request.
C21_SmallestRoomThatFits == [][SmallestRoomThatFits]_vars

\* C21 witness: a request sits in the second declared room, which is smaller than
\* the first, and the first room is empty at that slot although it holds the request.
C21_Witness ==
    /\ prog = "greedy" /\ pc = "done" /\ Len(model.rooms) = 2
    /\ model.rooms[2].capacity < model.rooms[1].capacity
    /\ \E i \in DOMAIN assignments :
          /\ assignments[i].room = model.rooms[2].id
          /\ RoomFreeIn(assignments, 1, assignments[i].day, assignments[i].time)

\* the (day, time) pairs of the rows placed so far that use a teacher, or a room
SlotsOfTeacher(made, id) ==
    {<<made[i].day, made[i].time>> :
        i \in {j \in DOMAIN made : made[j].room # NoneStr /\ made[j].teacher = id}}

SlotsOfRoom(made, id) ==
    {<<made[i].day, made[i].time>> : i \in {j \in DOMAIN made : made[j].room = id}}

\* the rows of greedy_schedule name a teacher and a room and nothing else that could
\* be occupied: a row has no group
RowKeys == {"event_id", "subject", "teacher", "room", "day", "time"}

\* teacher_busy and room_busy hold, for every teacher and room, the slots of the rows
\* placed so far that use it; both are empty before the first row
IndexMatchesPlacements ==
    (prog = "greedy" /\ pc \in {"loop", "done"})
    => /\ \A k \in DOMAIN teacher_busy \cup {model.teachers[i].id : i \in DOMAIN model.teachers} :
             /\ k \in DOMAIN teacher_busy
             /\ teacher_busy[k] = SlotsOfTeacher(assignments, k)
       /\ \A k \in DOMAIN room_busy \cup {model.rooms[i].id : i \in DOMAIN model.rooms} :
             /\ k \in DOMAIN room_busy
             /\ room_busy[k] = SlotsOfRoom(assignments, k)
       /\ \A i \in DOMAIN assignments : DOMAIN assignments[i] = RowKeys

\* a step that appends a row without a room leaves both maps as they were
FailedPlacementLeavesIndex ==
    (/\ prog = "greedy" /\ pc = "loop" /\ Len(assignments') = Len(assignments) + 1
     /\ assignments'[Len(assignments')].room = NoneStr)
    => teacher_busy' = teacher_busy /\ room_busy' = room_busy

DeclaredCount(subj) ==
    IF "classes_per_week" \in DOMAIN subj THEN subj.classes_per_week ELSE 1

\* the ids of the teachers qualified for a subject, in declared teacher order
QualifiedInOrder(sid) ==
    LET Teaches(t) == sid \in Range(t.subjects)
        qualified == SelectSeq(model.teachers, Teaches)
    IN [i \in DOMAIN qualified |-> qualified[i].id]

\* the identity, subject and teachers of the events of a list of subjects: the
\* events of the first subject, numbered from 1, then those of the rest
RECURSIVE DeclaredEvents(_)
DeclaredEvents(subjects) ==
    IF subjects = <<>> THEN <<>>
    ELSE LET s == Head(subjects)
         IN [i \in 1..DeclaredCount(s) |->
                [event_id |-> <<s.id, "__", i>>, subject |-> s.id,
                 candidate_teachers |-> QualifiedInOrder(s.id)]]
            \o DeclaredEvents(Tail(subjects))

\* the identity, subject and teachers of the events generate_events returned
EmittedEvents ==
    [i \in DOMAIN events |->
        [event_id |-> events[i].event_id, subject |-> events[i].subject,
         candidate_teachers |-> events[i].candidate_teachers]]

\* C23: generate_events emits for each subject, in declared subject order, exactly
\* classes_per_week events (1 when not given) with identities sid__1 .. sid__N, each
\* carrying every teacher qualified for the subject in declared teacher order; a
\* count of 0 and an empty subject list yield no events and no failure.
C23_EventsAsDeclared ==
    prog = "greedy"
    => /\ pc # "raised"
       /\ pc = "events" => EmittedEvents = DeclaredEvents(model.subjects)

\* the positions of the teachers whose declared subjects contain the subject
QualifiedTeachers(subject_id) ==
    {ti \in DOMAIN model.teachers : subject_id \in Range(model.teachers[ti].subjects)}

\* a step of Solver.solve that finishes a request: if the schedule did not grow,
\* no tuple of a qualified teacher, a day, a time and a room passes the checks
\* against the schedule of that moment; without a qualified teacher it does not grow
UnplacedOnlyIfNothingFits ==
    (prog = "solve" /\ pc = "tasks" /\ task' = task + 1)
    => LET subject_id == scheduling_tasks[task][1]
           group_id == scheduling_tasks[task][2]
       IN /\ schedule' = schedule
             => \A ti \in QualifiedTeachers(subject_id), d \in DOMAIN days,
                   m \in DOMAIN times, r \in DOMAIN model.rooms :
                   ~PassesSolve(model.teachers[ti].id, days[d], times[m],
                                model.rooms[r].id, subject_id, group_id, schedule)
          /\ QualifiedTeachers(subject_id) = {} => schedule' = schedule

\* C24: Solver.solve leaves a request unplaced only if, against the schedule at the
\* moment it is processed, every (qualified teacher, day, time, room) tuple fails at
\* least one check; a request whose subject has no qualified teacher is never placed.
C24_UnplacedOnlyIfNothingFits == [][UnplacedOnlyIfNothingFits]_vars

\* C24 witness: Solver.solve is through its requests, and one whose subject has a
\* qualified teacher has no session, while another request has one.
C24_Witness ==
    /\ prog = "solve" /\ task > Len(scheduling_tasks) /\ schedule # <<>>
    /\ \E k \in DOMAIN scheduling_tasks :
          /\ QualifiedTeachers(scheduling_tasks[k][1]) # {}
          /\ \A i \in DOMAIN schedule :
                ~(/\ schedule[i].subject = scheduling_tasks[k][1]
                  /\ schedule[i].groups = <<scheduling_tasks[k][2]>>)

\* C25: every session placed by Solver.solve is taught by a teacher whose declared
\* subjects contain the session's subject.
C25_TeacherQualified ==
    prog = "solve"
    => \A i \in DOMAIN schedule :
          \E ti \in DOMAIN model.teachers :
             /\ model.teachers[ti].id = schedule[i].teacher
             /\ schedule[i].subject \in Range(model.teachers[ti].subjects)

\* C25 witness: a session is taught by the second declared teacher, the first one
\* not being qualified for its subject.
C25_Witness ==
    /\ prog = "solve" /\ Len(model.teachers) = 2
    /\ \E i \in DOMAIN schedule :
          /\ schedule[i].teacher = model.teachers[2].id
          /\ schedule[i].subject \notin Range(model.teachers[1].subjects)

\* the event a row was made for
EventOfRow(row) == CHOOSE e \in Range(events) : e.event_id = row.event_id

\* the output rows of greedy_schedule: room, day and time are all set or all null,
\* and a row with a room has no teacher exactly when its event has no candidate
RowsWellFormed ==
    \A i \in DOMAIN assignments :
        LET a == assignments[i]
        IN /\ \/ a.room = NoneStr /\ a.day = NoneStr /\ a.time = NoneStr
              \/ a.room # NoneStr /\ a.day # NoneStr /\ a.time # NoneStr
           /\ a.room # NoneStr
              => (a.teacher = NoneStr <=> EventOfRow(a).candidate_teachers = <<>>)

\* the returned list holds the rows without a room, each once, in their order
UnassignedAreTheNullRows ==
    LET null_rows == {i \in DOMAIN assignments : assignments[i].room = NoneStr}
    IN /\ Len(unassigned) = Cardinality(null_rows)
       /\ \A k \in DOMAIN unassigned :
             \E i \in null_rows :
                /\ unassigned[k] = assignments[i]
                /\ Cardinality({j \in null_rows : j < i}) = k - 1

\* a step that appends a row with a room and no teacher leaves teacher_busy alone
NoTeacherNoMark ==
    (/\ prog = "greedy" /\ pc = "loop" /\ Len(assignments') = Len(assignments) + 1
     /\ assignments'[Len(assignments')].room # NoneStr
     /\ assignments'[Len(assignments')].teacher = NoneStr)
    => teacher_busy' = teacher_busy

\* C26: in greedy_schedule every output row has room, day and time either all set or
\* all null; the rows with a null room are exactly the returned unassigned list; a
\* row with a room has a null teacher exactly when the event's candidate-teacher list
\* is empty, and then no teacher's occupied set is changed.
C26_RowShape ==
    /\ []((prog = "greedy" /\ pc \in {"loop", "done"}) => RowsWellFormed)
    /\ []((prog = "greedy" /\ pc = "done") => UnassignedAreTheNullRows)
    /\ [][NoTeacherNoMark]_vars

\* C26 witness: at the end of a run with teachers, one row has a room and no
\* teacher, and the event of another, which has a candidate teacher, has no room.
C26_Witness ==
    /\ prog = "greedy" /\ pc = "done" /\ model.teachers # <<>>
    /\ \E i \in DOMAIN assignments :
          assignments[i].room # NoneStr /\ assignments[i].teacher = NoneStr
    /\ \E k \in DOMAIN unassigned :
          EventOfRow(unassigned[k]).candidate_teachers # <<>>

=============================================================================
